---- MODULE Spec2Model ----
(***************************************************************************)
(* Memory decay and archival subsystem of OpenMemory:                      *)
(*   app/utils/decay.py                    (same-table variant)            *)
(*   app/utils/decay_with_archive_table.py (archive-table variant)         *)
(*   app/routers/memories.py, app/mcp_server.py (state changes, accesses)  *)
(*                                                                         *)
(* Floats are fixed-point integers with SCALE = 1.0.  Timestamps are hours *)
(* on one UTC clock; None is the value NONE.  The rows of a table are a    *)
(* function from the primary key to the row; queries without ORDER BY      *)
(* return rows in primary-key order.                                       *)
(***************************************************************************)
EXTENDS Integers, Sequences, FiniteSets, TLC

\* ---------------------------------------------------------------- bounds
NumMem == 3
MaxTicks == 1
MaxLogs == 1
MaxFaults == 1
MaxHistory == 3
MaxAccesses == 4

\* ------------------------------------------------------- model constants
SCALE == 10000
NONE == -1
HOURS_PER_DAY == 24
MAX_BOOST == 2 * SCALE
DEFAULT_IMPORTANCE == SCALE \div 2

Ids == 1..NumMem
Users == {"u1", "u2"}
Names == {"work", "travel"}
NoUser == "any"
Filters == {NoUser, "u1"}
StartNow == 60 * HOURS_PER_DAY
TickSteps == {12, 60 * HOURS_PER_DAY}
HalfLives == {30, 15}
Thresholds == {1875, 7500}
BatchSizes == {1, 2}

OwnerOf(id) == IF id = NumMem THEN "u2" ELSE "u1"
ContentOf(id) == id
CreatedAt(id) == IF id = NumMem THEN StartNow ELSE 0

\* ------------------------------------------------------------- helpers
Min(a, b) == IF a < b THEN a ELSE b
Max(a, b) == IF a > b THEN a ELSE b

RECURSIVE Pow2(_)
Pow2(n) == IF n <= 0 THEN 1 ELSE 2 * Pow2(n - 1)

RECURSIVE SetToSeq(_)
SetToSeq(S) ==
  IF S = {} THEN <<>>
  ELSE LET m == CHOOSE x \in S : \A y \in S : x <= y
       IN <<m>> \o SetToSeq(S \ {m})

Range(s) == {s[i] : i \in 1..Len(s)}

Drop(f, k) == [i \in (DOMAIN f) \ {k} |-> f[i]]

\* 0.5 ^ (k / 30) for k = 0..29, in units of 1 / SCALE
HalfPow30 ==
  <<10000, 9772, 9548, 9330, 9117, 8909, 8706, 8507, 8312, 8123,
    7937, 7756, 7579, 7405, 7236, 7071, 6910, 6752, 6598, 6447,
    6300, 6156, 6015, 5878, 5743, 5612, 5484, 5359, 5236, 5117>>

\* 0.2 * ln(1 + n) for n = 1..12, in units of 1 / SCALE
LogBoost ==
  <<1386, 2197, 2773, 3219, 3584, 3892, 4159, 4394, 4605, 4796, 4970, 5130>>

Clamp01_Off(x) == x

\* max(0.0, min(1.0, x))
Clamp01(x) == Max(0, Min(SCALE, x))

\* ------------------------------------------------------- DecayFunction
\* math.pow(0.5, days / half_life), for half-lives that divide 30
calculate_time_decay(days, half_life_days) ==
  IF days <= 0 THEN SCALE
  ELSE Clamp01(HalfPow30[(((days % half_life_days) * 30) \div half_life_days) + 1]
               \div Pow2(days \div half_life_days))

calculate_access_boost(access_count) ==
  IF access_count <= 0 THEN SCALE
  ELSE Min(SCALE + LogBoost[Min(access_count, Len(LogBoost))], MAX_BOOST)

importance_weight(importance_score) == (SCALE \div 2) + (importance_score \div 2)

DaysBetween_Rounded(t, ref) == (t - ref + (HOURS_PER_DAY \div 2)) \div HOURS_PER_DAY

\* timedelta.days: whole days, rounded towards minus infinity
DaysBetween(t, ref) == (t - ref) \div HOURS_PER_DAY

calculate_decay_score(created_at, last_accessed_at, access_count, importance_score, half_life_days, t) ==
  LET days_since_access ==
        IF last_accessed_at # NONE THEN DaysBetween(t, last_accessed_at)
        ELSE DaysBetween(t, created_at)
      time_decay == calculate_time_decay(days_since_access, half_life_days)
      access_boost == calculate_access_boost(access_count)
      final_score == (((time_decay * access_boost) \div SCALE)
                       * importance_weight(importance_score)) \div SCALE
  IN Clamp01(final_score)

\* ------------------------------------------------------------------ state
VARIABLES
  memories,           \* table memories: id -> row
  archived_memories,  \* table archived_memories: id -> row
  history,            \* table memory_status_history, in insertion order
  access_logs,        \* table memory_access_logs, in insertion order
  categories,         \* names that have a row in table categories
  now,                \* the UTC clock, in hours
  ticks,              \* number of clock advances so far
  faults,             \* number of failures raised so far
  run,                \* the frame of update_memory_decay_scores
  prior,              \* the last undisturbed, completed update pass
  last,               \* the last call and what it returned
  config,             \* the settings read from the environment at start
  jobs,               \* the runs of the decay pipeline: position and steps
  sessions            \* the search_memory calls in progress, per client

vars == <<memories, archived_memories, history, access_logs, categories,
          now, ticks, faults, run, prior, last, config, jobs, sessions>>

CategoriesOf(id) == IF id = 1 THEN {"work"}
                    ELSE IF id = 2 THEN {"work", "travel"} ELSE {}

\* Memory(...) with the column defaults of the model class; updated_at has
\* onupdate = now, so every UPDATE of a row sets it
Memory(id, created_at) ==
  [user_id |-> OwnerOf(id), content |-> ContentOf(id), state |-> "active",
   created_at |-> created_at, updated_at |-> created_at,
   archived_at |-> NONE, deleted_at |-> NONE,
   decay_score |-> SCALE, last_accessed_at |-> NONE, access_count |-> 0,
   importance_score |-> DEFAULT_IMPORTANCE, categories |-> CategoriesOf(id)]

MemoryStatusHistory(memory_id, changed_by, old_state, new_state) ==
  [memory_id |-> memory_id, changed_by |-> changed_by,
   old_state |-> old_state, new_state |-> new_state]

MemoryAccessLog(memory_id, accessed_at) ==
  [memory_id |-> memory_id, accessed_at |-> accessed_at]

NoRun == [pc |-> "idle", batch_size |-> 0, half_life_days |-> 0,
          user_id |-> NoUser, offset |-> 0, total_updated |-> 0,
          pages |-> 0, visits |-> [id \in Ids |-> 0], failed |-> {},
          n0 |-> 0, clean |-> TRUE, follows |-> FALSE, prior_total |-> 0]

NoPrior == [valid |-> FALSE, half_life_days |-> 0, user_id |-> NoUser,
            total |-> 0]

\* a call of another request while an update pass is between two pages
Disturb(r) == IF r.pc = "loop" THEN [r EXCEPT !.clean = FALSE] ELSE r

\* --------------------------------------------------------- configuration
\* batch_size of the pipeline's calls, and the default half-life
JOB_BATCH_SIZE == 100
DECAY_HALF_LIFE_DAYS == 30

\* MEMORY_DECAY_AUTO_ARCHIVE_THRESHOLD, default 0.1
DEFAULT_THRESHOLD == SCALE \div 10

\* a scheduled run, a run of trigger_decay_update_now, a trigger-update request
Jobs == {"scheduled", "manual", "api"}

\* at: the step of the run that comes next (0: no run in progress);
\* done: the steps the current or last run has completed, in order
NoJob == [at |-> 0, done |-> <<>>, auto_archive |-> TRUE, threshold |-> 0]

DefaultConfig ==
  [enabled |-> TRUE, auto_archive |-> TRUE, threshold |-> DEFAULT_THRESHOLD]

Configs == [enabled : BOOLEAN, auto_archive : BOOLEAN, threshold : Thresholds]

\* the MCP clients, each with its own database session
Clients == {"c1", "c2"}

NoSession == [pc |-> "idle", id |-> NONE, access_count |-> 0]

\* the tables after memory 2 was created and possibly paused or deleted
\* through update_memory_state, and the settings of the process
InitWith(cfgs, states) ==
  /\ \E st \in states :
       /\ memories = [id \in Ids |->
                        IF id = 2
                        THEN [Memory(id, CreatedAt(id)) EXCEPT
                                !.state = st,
                                !.deleted_at = IF st = "deleted"
                                               THEN CreatedAt(id) ELSE NONE]
                        ELSE Memory(id, CreatedAt(id))]
       /\ history = IF st # "active"
                    THEN <<MemoryStatusHistory(2, OwnerOf(2), "active", st)>>
                    ELSE <<>>
  /\ archived_memories = <<>>
  /\ access_logs = <<>>
  /\ categories = Names
  /\ now = StartNow
  /\ ticks = 0
  /\ faults = 0
  /\ run = NoRun
  /\ prior = NoPrior
  /\ last = [op |-> "init"]
  /\ config \in cfgs
  /\ jobs = [j \in Jobs |-> NoJob]
  /\ sessions = [c \in Clients |-> NoSession]

Init == InitWith({DefaultConfig}, {"active", "paused"})

\* ------------------------------------------------------------ environment
Tick(step) ==
  /\ ticks < MaxTicks
  /\ now' = now + step
  /\ ticks' = ticks + 1
  /\ run' = Disturb(run)
  /\ prior' = NoPrior
  /\ last' = [op |-> "tick"]
  /\ UNCHANGED <<sessions, config, jobs, memories, archived_memories, history, access_logs,
                 categories, faults>>

\* a row of table categories is removed by the owner of the categories;
\* the foreign key of memory_categories forbids it while a memory uses it
RemoveCategory(name) ==
  /\ name \in categories
  /\ \A id \in DOMAIN memories : name \notin memories[id].categories
  /\ categories' = categories \ {name}
  /\ run' = Disturb(run)
  /\ prior' = NoPrior
  /\ last' = [op |-> "remove_category"]
  /\ UNCHANGED <<sessions, config, jobs, memories, archived_memories, history, access_logs,
                 now, ticks, faults>>

\* ------------------------------------------------- access logging (search)
search_memory(id) ==
  /\ Len(access_logs) < MaxLogs
  /\ memories' =
       IF id \in DOMAIN memories
       THEN [memories EXCEPT ![id].last_accessed_at = now,
                             ![id].access_count = @ + 1,
                             ![id].updated_at = now]
       ELSE memories
  /\ access_logs' = Append(access_logs, MemoryAccessLog(id, now))
  /\ run' = Disturb(run)
  /\ prior' = NoPrior
  /\ last' = [op |-> "search_memory", id |-> id]
  /\ UNCHANGED <<sessions, config, jobs, archived_memories, history, categories, now, ticks, faults>>

\* ---------------------------------------------------- AccessStatsCollector
update_memory_access_stats_Accumulate(id) ==
  LET mine == {i \in 1..Len(access_logs) : access_logs[i].memory_id = id}
      stamps == {access_logs[i].accessed_at : i \in mine}
  IN [access_count |-> memories[id].access_count + Cardinality(mine),
      last_accessed |-> IF mine = {} THEN NONE
                        ELSE CHOOSE t \in stamps : \A u \in stamps : u <= t]

update_memory_access_stats_Cached(id) ==
  [access_count |-> memories[id].access_count,
   last_accessed |-> memories[id].last_accessed_at]

\* (len(access_logs), max(log.accessed_at) or None) over the rows of the id
update_memory_access_stats(id) ==
  LET mine == {i \in 1..Len(access_logs) : access_logs[i].memory_id = id}
      stamps == {access_logs[i].accessed_at : i \in mine}
  IN [access_count |-> Cardinality(mine),
      last_accessed |-> IF mine = {} THEN NONE
                        ELSE CHOOSE t \in stamps : \A u \in stamps : u <= t]

\* ---------------------------------------------------------- DecayUpdateBatch
update_single_memory_decay(memory, id, half_life_days) ==
  LET stats == update_memory_access_stats(id)
  IN [memory EXCEPT
        !.decay_score = calculate_decay_score(memory.created_at,
                          stats.last_accessed, stats.access_count,
                          memory.importance_score, half_life_days, now),
        !.last_accessed_at = stats.last_accessed,
        !.access_count = stats.access_count,
        !.updated_at = now]

\* Memory.state == active, optionally of one user, in primary-key order
ActiveIds(user_id) ==
  {id \in DOMAIN memories :
     /\ memories[id].state = "active"
     /\ (user_id = NoUser \/ memories[id].user_id = user_id)}

QueryPage_SkipsOne(S, offset, limit) ==
  LET rows == SetToSeq(S)
  IN SubSeq(rows, offset + 2, Min(Len(rows), offset + limit))

\* query.offset(offset).limit(limit).all()
QueryPage(S, offset, limit) ==
  LET rows == SetToSeq(S)
  IN SubSeq(rows, offset + 1, Min(Len(rows), offset + limit))

UpdateStart(batch_size, half_life_days, user_id) ==
  /\ run.pc # "loop"
  /\ run' = [NoRun EXCEPT
               !.pc = "loop", !.batch_size = batch_size,
               !.half_life_days = half_life_days, !.user_id = user_id,
               !.n0 = Cardinality(ActiveIds(user_id)),
               !.follows = /\ prior.valid
                           /\ prior.half_life_days = half_life_days
                           /\ prior.user_id = user_id,
               !.prior_total = prior.total]
  /\ prior' = NoPrior
  /\ last' = [op |-> "update_start"]
  /\ UNCHANGED <<sessions, config, jobs, memories, archived_memories, history, access_logs,
                 categories, now, ticks, faults>>

Updated_AbortPage(page, failed) ==
  IF failed = {} THEN Range(page) ELSE {}

\* the records of a page that the try block updates: the others raise in
\* update_single_memory_decay before anything is assigned, and are skipped
Updated(page, failed) == Range(page) \ failed

\* one iteration of the while loop on a non-empty page
UpdatePage(failed) ==
  /\ run.pc = "loop"
  /\ LET page == QueryPage(ActiveIds(run.user_id), run.offset, run.batch_size)
         done == Updated(page, failed)
     IN /\ page # <<>>
        /\ failed \subseteq Range(page)
        /\ faults + Cardinality(failed) <= MaxFaults
        /\ memories' =
             [id \in DOMAIN memories |->
                IF id \in done
                THEN update_single_memory_decay(memories[id], id,
                                                run.half_life_days)
                ELSE memories[id]]
        /\ faults' = faults + Cardinality(failed)
        /\ run' = [run EXCEPT
                     !.total_updated = @ + Cardinality(done),
                     !.offset = @ + run.batch_size,
                     !.pages = @ + 1,
                     !.visits = [id \in Ids |->
                                   IF id \in done THEN @[id] + 1 ELSE @[id]],
                     !.failed = @ \cup failed,
                     !.clean = @ /\ failed = {}]
        /\ last' = [op |-> "update_page", page |-> page, failed |-> failed]
  /\ UNCHANGED <<sessions, config, jobs, archived_memories, history, access_logs, categories,
                 now, ticks, prior>>

\* db.commit() of a page raises: the page is rolled back and the exception
\* leaves update_memory_decay_scores
UpdateCommitFails ==
  /\ run.pc = "loop"
  /\ faults < MaxFaults
  /\ LET page == QueryPage(ActiveIds(run.user_id), run.offset, run.batch_size)
     IN /\ page # <<>>
        /\ run' = NoRun
        /\ last' = [op |-> "update_raise", page |-> page]
  /\ faults' = faults + 1
  /\ UNCHANGED <<sessions, config, jobs, memories, archived_memories, history, access_logs,
                 categories, now, ticks, prior>>

\* the page is empty: break and return total_updated
UpdateReturn ==
  /\ run.pc = "loop"
  /\ QueryPage(ActiveIds(run.user_id), run.offset, run.batch_size) = <<>>
  /\ run' = NoRun
  /\ prior' = IF run.clean
              THEN [valid |-> TRUE, half_life_days |-> run.half_life_days,
                    user_id |-> run.user_id, total |-> run.total_updated]
              ELSE NoPrior
  /\ last' = [op |-> "update_return", ret |-> run.total_updated]
  /\ UNCHANGED <<sessions, config, jobs, memories, archived_memories, history, access_logs,
                 categories, now, ticks, faults>>

\* ---------------------------------------------------------- ArchiveTransition
BelowThreshold_Inclusive(decay_score, threshold) == decay_score <= threshold

BelowThreshold(decay_score, threshold) == decay_score < threshold

\* Memory.state == active and Memory.decay_score < threshold
ToArchive(threshold, user_id) ==
  {id \in ActiveIds(user_id) :
     BelowThreshold(memories[id].decay_score, threshold)}

ArchiveBatch_NoLimit(threshold, batch_size, user_id) ==
  SetToSeq(ToArchive(threshold, user_id))

\* query.limit(batch_size).all(): one page, no scan loop
ArchiveBatch(threshold, batch_size, user_id) ==
  QueryPage(ToArchive(threshold, user_id), 0, batch_size)

RECURSIVE HistoryOf(_, _, _)
HistoryOf(batch, skipped, new_state) ==
  IF batch = <<>> THEN <<>>
  ELSE LET id == Head(batch)
           rest == HistoryOf(Tail(batch), skipped, new_state)
       IN IF id \in skipped THEN rest
          ELSE <<MemoryStatusHistory(id, memories[id].user_id,
                                     memories[id].state, new_state)>> \o rest

\* same-table variant (app/utils/decay.py).  For the records of failed,
\* recording the history raises after state and archived_at were assigned;
\* the handler logs and the loop goes on; one commit at the end.
ST_auto_archive_decayed_memories(threshold, batch_size, user_id, failed) ==
  LET batch == ArchiveBatch(threshold, batch_size, user_id)
      counted == Range(batch) \ failed
  IN /\ failed \subseteq Range(batch)
     /\ faults + Cardinality(failed) <= MaxFaults
     /\ Len(history) + Len(batch) <= MaxHistory
     /\ memories' =
          [id \in DOMAIN memories |->
             IF id \in Range(batch)
             THEN [memories[id] EXCEPT !.state = "archived",
                                       !.archived_at = now,
                                       !.updated_at = now]
             ELSE memories[id]]
     /\ history' = history \o HistoryOf(batch, failed, "archived")
     /\ faults' = faults + Cardinality(failed)
     /\ run' = Disturb(run)
     /\ prior' = NoPrior
     /\ last' = [op |-> "st_archive", threshold |-> threshold,
                 batch |-> batch, failed |-> failed,
                 ret |-> Cardinality(counted)]
     /\ UNCHANGED <<sessions, config, jobs, archived_memories, access_logs, categories, now, ticks>>

\* the row written by move_memory_to_archive
ArchivedMemory(memory) ==
  [user_id |-> memory.user_id, content |-> memory.content,
   created_at |-> memory.created_at, updated_at |-> memory.updated_at,
   archived_at |-> now, archived_from_state |-> memory.state,
   decay_score_at_archive |-> memory.decay_score,
   last_accessed_at |-> memory.last_accessed_at,
   access_count |-> memory.access_count,
   importance_score |-> memory.importance_score,
   categories_snapshot |-> memory.categories]

\* the records whose move is still pending in the session after the loop:
\* db.rollback() in the handler discards everything that is pending
RECURSIVE PendingMoves(_, _, _)
PendingMoves(batch, failed, pending) ==
  IF batch = <<>> THEN pending
  ELSE IF Head(batch) \in failed
       THEN PendingMoves(Tail(batch), failed, <<>>)
       ELSE PendingMoves(Tail(batch), failed, Append(pending, Head(batch)))

AfterMove_Keeps(moved) == memories

\* db.delete(memory) for the records whose move is committed
AfterMove(moved) ==
  [id \in (DOMAIN memories) \ Range(moved) |-> memories[id]]

\* archive-table variant (app/utils/decay_with_archive_table.py)
AT_auto_archive_decayed_memories(threshold, batch_size, user_id, failed) ==
  LET batch == ArchiveBatch(threshold, batch_size, user_id)
      counted == Range(batch) \ failed
      moved == PendingMoves(batch, failed, <<>>)
  IN /\ failed \subseteq Range(batch)
     /\ faults + Cardinality(failed) <= MaxFaults
     /\ Len(history) + Len(batch) <= MaxHistory
     /\ archived_memories' =
          [id \in Range(moved) |-> ArchivedMemory(memories[id])]
            @@ archived_memories
     /\ history' = history \o HistoryOf(moved, {}, "archived")
     /\ memories' = AfterMove(moved)
     /\ faults' = faults + Cardinality(failed)
     /\ run' = Disturb(run)
     /\ prior' = NoPrior
     /\ last' = [op |-> "at_archive", threshold |-> threshold,
                 batch |-> batch, failed |-> failed,
                 ret |-> Cardinality(counted)]
     /\ UNCHANGED <<sessions, config, jobs, access_logs, categories, now, ticks>>

\* Memory.id == memory_id, Memory.user_id == user_id, Memory.state == archived
ST_Found(memory_id, user_id) ==
  /\ memory_id \in DOMAIN memories
  /\ memories[memory_id].user_id = user_id
  /\ memories[memory_id].state = "archived"

\* same-table variant of restore_archived_memory
ST_restore_archived_memory(memory_id, user_id) ==
  LET found == ST_Found(memory_id, user_id)
  IN /\ found => Len(history) < MaxHistory
     /\ memories' =
          IF found
          THEN [memories EXCEPT ![memory_id].state = "active",
                                ![memory_id].decay_score = SCALE,
                                ![memory_id].archived_at = NONE,
                                ![memory_id].updated_at = now]
          ELSE memories
     /\ history' =
          IF found
          THEN Append(history, MemoryStatusHistory(memory_id, user_id,
                                 memories[memory_id].state, "active"))
          ELSE history
     /\ run' = Disturb(run)
     /\ prior' = NoPrior
     /\ last' = [op |-> "st_restore", id |-> memory_id, ret |-> found]
     /\ UNCHANGED <<sessions, config, jobs, archived_memories, access_logs, categories, now, ticks,
                    faults>>

RestoredMemory_AllNames(archived_memory) ==
  [user_id |-> archived_memory.user_id, content |-> archived_memory.content,
   state |-> "active", created_at |-> archived_memory.created_at,
   updated_at |-> now, archived_at |-> NONE, deleted_at |-> NONE,
   decay_score |-> SCALE, last_accessed_at |-> NONE, access_count |-> 0,
   importance_score |-> archived_memory.importance_score,
   categories |-> archived_memory.categories_snapshot]

\* the row created by restore_archived_memory of the archive-table variant
RestoredMemory(archived_memory) ==
  [user_id |-> archived_memory.user_id, content |-> archived_memory.content,
   state |-> "active", created_at |-> archived_memory.created_at,
   updated_at |-> now, archived_at |-> NONE, deleted_at |-> NONE,
   decay_score |-> SCALE, last_accessed_at |-> NONE, access_count |-> 0,
   importance_score |-> archived_memory.importance_score,
   categories |-> {c \in archived_memory.categories_snapshot :
                     c \in categories}]

AT_Found_AnyOwner(memory_id, user_id) ==
  memory_id \in DOMAIN archived_memories

\* ArchivedMemory.id == memory_id, ArchivedMemory.user_id == user_id
AT_Found(memory_id, user_id) ==
  /\ memory_id \in DOMAIN archived_memories
  /\ archived_memories[memory_id].user_id = user_id

\* archive-table variant of restore_archived_memory
AT_restore_archived_memory(memory_id, user_id) ==
  LET found == AT_Found(memory_id, user_id)
  IN /\ found => Len(history) < MaxHistory
     /\ memories' =
          IF found
          THEN (memory_id :> RestoredMemory(archived_memories[memory_id]))
                 @@ memories
          ELSE memories
     /\ history' =
          IF found
          THEN Append(history, MemoryStatusHistory(memory_id, user_id,
                                 "archived", "active"))
          ELSE history
     /\ archived_memories' =
          IF found THEN Drop(archived_memories, memory_id)
          ELSE archived_memories
     /\ run' = Disturb(run)
     /\ prior' = NoPrior
     /\ last' = [op |-> "at_restore", id |-> memory_id, ret |-> found]
     /\ UNCHANGED <<sessions, config, jobs, access_logs, categories, now, ticks, faults>>

\* ---------------------------------------------------------- StatisticsReporter
HIGH_BREAK == (7 * SCALE) \div 10
LOW_BREAK == (3 * SCALE) \div 10

ActiveIn_AnyState(tab, user_id) ==
  {id \in DOMAIN tab : user_id = NoUser \/ tab[id].user_id = user_id}

\* the rows of tab that are active, optionally of one user
ActiveIn(tab, user_id) ==
  {id \in DOMAIN tab :
     /\ tab[id].state = "active"
     /\ (user_id = NoUser \/ tab[id].user_id = user_id)}

StatRows_AllStates(user_id) ==
  {id \in DOMAIN memories :
     user_id = NoUser \/ memories[id].user_id = user_id}

\* db.query(Memory).filter(Memory.state == MemoryState.active), owner filter
StatRows(user_id) == ActiveIn(memories, user_id)

RECURSIVE SumScores(_)
SumScores(S) ==
  IF S = {} THEN 0
  ELSE LET x == CHOOSE y \in S : TRUE
       IN memories[x].decay_score + SumScores(S \ {x})

\* round(x, 3) of a value in units of 1 / SCALE
Round3(x) == ((x + 5) \div 10) * 10

\* same-table variant (app/utils/decay.py)
get_decay_statistics(user_id) ==
  LET rows == StatRows(user_id)
  IN IF rows = {}
     THEN [total_memories |-> 0, average_decay_score |-> 0,
           high_decay_count |-> 0, medium_decay_count |-> 0,
           low_decay_count |-> 0]
     ELSE [total_memories |-> Cardinality(rows),
           average_decay_score |->
             Round3(SumScores(rows) \div Cardinality(rows)),
           high_decay_count |->
             Cardinality({id \in rows :
                            memories[id].decay_score >= HIGH_BREAK}),
           medium_decay_count |->
             Cardinality({id \in rows :
                            /\ LOW_BREAK <= memories[id].decay_score
                            /\ memories[id].decay_score < HIGH_BREAK}),
           low_decay_count |->
             Cardinality({id \in rows :
                            memories[id].decay_score < LOW_BREAK})]

\* archive-table variant: the same over the active rows, and the number of
\* archive records of the owner
AT_get_decay_statistics(user_id) ==
  [active |-> get_decay_statistics(user_id),
   total_archived_memories |->
     Cardinality({id \in DOMAIN archived_memories :
                    user_id = NoUser
                      \/ archived_memories[id].user_id = user_id})]

\* ------------------------------------------------------------ DecayScheduler
RECURSIVE update_memory_decay_scores(_, _, _, _, _)
\* the whole while loop of a pass in which nothing raises: the table after
\* the last page and the count returned
update_memory_decay_scores(tab, offset, batch_size, half_life_days, user_id) ==
  LET page == QueryPage(ActiveIn(tab, user_id), offset, batch_size)
  IN IF page = <<>> THEN [tab |-> tab, total_updated |-> 0]
     ELSE LET next == [id \in DOMAIN tab |->
                         IF id \in Range(page)
                         THEN update_single_memory_decay(tab[id], id,
                                                         half_life_days)
                         ELSE tab[id]]
              rest == update_memory_decay_scores(next, offset + batch_size,
                        batch_size, half_life_days, user_id)
          IN [tab |-> rest.tab,
              total_updated |-> Len(page) + rest.total_updated]

\* if not DECAY_ENABLED
DecayDisabled_Never == FALSE

DecayDisabled == ~ config.enabled

StepsOf_ArchiveFirst(j, auto_archive) == <<"archive", "update", "stats">>

\* the calls of a run, in the order of the code: update_decay_job has no
\* auto-archive setting; the trigger-update request has one
StepsOf(j, auto_archive) ==
  IF j = "api" /\ ~ auto_archive THEN <<"update", "stats">>
  ELSE <<"update", "archive", "stats">>

JobFlag(j) == IF j = "api" THEN jobs[j].auto_archive ELSE config.auto_archive

CurrentStep(j) ==
  LET steps == StepsOf(j, JobFlag(j))
  IN IF jobs[j].at = 0 THEN "none" ELSE steps[jobs[j].at]

\* the frame of job j after it has completed its current step
Advance(j) ==
  LET steps == StepsOf(j, JobFlag(j))
  IN [jobs[j] EXCEPT
        !.at = IF jobs[j].at = Len(steps) THEN 0 ELSE jobs[j].at + 1,
        !.done = Append(@, steps[jobs[j].at])]

\* what the caller of a run that has ended sees
Ended(j, ok) ==
  IF j = "manual" THEN [op |-> "trigger", ret |-> TRUE]
  ELSE [op |-> "job_end", job |-> j, ok |-> ok]

\* the cron trigger fires update_decay_job: start_decay_scheduler registers
\* the job only when decay is enabled, and the scheduler does not start a
\* second instance of the job while one is running
ScheduledFire ==
  /\ ~ DecayDisabled
  /\ jobs["scheduled"].at = 0
  /\ jobs' = [jobs EXCEPT !["scheduled"] =
                [at |-> 1, done |-> <<>>, auto_archive |-> config.auto_archive,
                 threshold |-> config.threshold]]
  /\ last' = [op |-> "job_start", job |-> "scheduled"]
  /\ UNCHANGED <<sessions, memories, archived_memories, history, access_logs,
                 categories, now, ticks, faults, run, prior, config>>

\* trigger_decay_update_now: refuses when decay is disabled, else runs
\* update_decay_job in the calling thread and returns True when it returns
trigger_decay_update_now ==
  /\ jobs["manual"].at = 0
  /\ IF DecayDisabled
     THEN /\ last' = [op |-> "trigger", ret |-> FALSE]
          /\ UNCHANGED jobs
     ELSE IF ~ config.enabled  \* the check of update_decay_job itself
     THEN /\ last' = [op |-> "trigger", ret |-> TRUE]
          /\ UNCHANGED jobs
     ELSE /\ jobs' = [jobs EXCEPT !["manual"] =
                        [at |-> 1, done |-> <<>>,
                         auto_archive |-> config.auto_archive,
                         threshold |-> config.threshold]]
          /\ last' = [op |-> "job_start", job |-> "manual"]
  /\ UNCHANGED <<sessions, memories, archived_memories, history, access_logs,
                 categories, now, ticks, faults, run, prior, config>>

\* POST /api/v1/decay/trigger-update, all users, default half-life
trigger_decay_update(auto_archive, archive_threshold) ==
  /\ jobs["api"].at = 0
  /\ jobs' = [jobs EXCEPT !["api"] =
                [at |-> 1, done |-> <<>>, auto_archive |-> auto_archive,
                 threshold |-> archive_threshold]]
  /\ last' = [op |-> "job_start", job |-> "api"]
  /\ UNCHANGED <<sessions, memories, archived_memories, history, access_logs,
                 categories, now, ticks, faults, run, prior, config>>

\* step 1 of a run: update_memory_decay_scores(db, batch_size=100, ...)
JobUpdate(j) ==
  /\ CurrentStep(j) = "update"
  /\ LET pass == update_memory_decay_scores(memories, 0, JOB_BATCH_SIZE,
                   DECAY_HALF_LIFE_DAYS, NoUser)
     IN /\ memories' = pass.tab
        /\ last' = [op |-> "job_update", job |-> j,
                    ret |-> pass.total_updated]
  /\ jobs' = [jobs EXCEPT ![j] = Advance(j)]
  /\ UNCHANGED <<sessions, archived_memories, history, access_logs, categories, now,
                 ticks, faults, run, prior, config>>

\* db.commit() of the pass raises: the exception ends the run (logged by
\* update_decay_job, status 500 from the trigger-update request)
JobUpdateFails(j) ==
  /\ CurrentStep(j) = "update"
  /\ faults < MaxFaults
  /\ ActiveIn(memories, NoUser) # {}
  /\ faults' = faults + 1
  /\ jobs' = [jobs EXCEPT ![j].at = 0]
  /\ last' = Ended(j, FALSE)
  /\ UNCHANGED <<sessions, memories, archived_memories, history, access_logs,
                 categories, now, ticks, run, prior, config>>

\* step 2 of a run: auto_archive_decayed_memories(db, threshold, 100) of
\* app/utils/decay.py
JobArchive(j) ==
  /\ CurrentStep(j) = "archive"
  /\ LET batch == ArchiveBatch(jobs[j].threshold, JOB_BATCH_SIZE, NoUser)
     IN /\ memories' =
             [id \in DOMAIN memories |->
                IF id \in Range(batch)
                THEN [memories[id] EXCEPT !.state = "archived",
                                          !.archived_at = now,
                                          !.updated_at = now]
                ELSE memories[id]]
        /\ history' = history \o HistoryOf(batch, {}, "archived")
        /\ last' = [op |-> "job_archive", job |-> j, ret |-> Len(batch)]
  /\ jobs' = [jobs EXCEPT ![j] = Advance(j)]
  /\ UNCHANGED <<sessions, archived_memories, access_logs, categories, now, ticks,
                 faults, run, prior, config>>

\* step 3 of a run: get_decay_statistics(db), then the run returns
JobStats(j) ==
  /\ CurrentStep(j) = "stats"
  /\ jobs' = [jobs EXCEPT ![j] = Advance(j)]
  /\ last' = IF Advance(j).at = 0 THEN Ended(j, TRUE)
             ELSE [op |-> "job_stats", job |-> j,
                   ret |-> get_decay_statistics(NoUser)]
  /\ UNCHANGED <<sessions, memories, archived_memories, history, access_logs,
                 categories, now, ticks, faults, run, prior, config>>


\* -------------------------------------------------------------- admin calls
\* half_life_days default of update_single_memory_decay
DEFAULT_HALF_LIFE == 30

Importances == {0, SCALE}

\* the archive threshold of the requests
ADMIN_THRESHOLD == (3 * SCALE) \div 4

ImportanceUpdated_NoRecompute(memory, id, importance_score) ==
  [memory EXCEPT !.importance_score = importance_score]

\* memory.importance_score = request.importance_score, then
\* update_single_memory_decay(db, memory)
ImportanceUpdated(memory, id, importance_score) ==
  update_single_memory_decay(
    [memory EXCEPT !.importance_score = importance_score], id,
    DEFAULT_HALF_LIFE)

\* POST /api/v1/decay/update-importance: the memory is looked up by id and
\* owner in table memories, whatever its state; 404 when there is none
update_memory_importance(memory_id, user_id, importance_score) ==
  LET found == /\ memory_id \in DOMAIN memories
               /\ memories[memory_id].user_id = user_id
  IN /\ memories' =
          IF found
          THEN [memories EXCEPT ![memory_id] =
                  ImportanceUpdated(memories[memory_id], memory_id,
                                    importance_score)]
          ELSE memories
     /\ last' = [op |-> "update_importance", id |-> memory_id, ret |-> found]
     /\ run' = Disturb(run)
     /\ prior' = NoPrior
     /\ UNCHANGED <<sessions, archived_memories, history, access_logs, categories,
                    now, ticks, faults, config, jobs>>

\* GET /api/v1/decay/statistics, and the archive-table variant of the call
GetStatistics(user_id) ==
  /\ last' = [op |-> "statistics", user_id |-> user_id,
              ret |-> get_decay_statistics(user_id),
              at_ret |-> AT_get_decay_statistics(user_id)]
  /\ UNCHANGED <<sessions, memories, archived_memories, history, access_logs,
                 categories, now, ticks, faults, run, prior, config, jobs>>

DeleteFound_AnyOwner(memory_id, user_id) ==
  memory_id \in DOMAIN archived_memories

\* ArchivedMemory.id == memory_id, ArchivedMemory.user_id == user.id
DeleteFound(memory_id, user_id) ==
  /\ memory_id \in DOMAIN archived_memories
  /\ archived_memories[memory_id].user_id = user_id

\* DELETE /api/v1/archived-memories/{memory_id}: 404 when there is no
\* archive record of that id and owner, else the record is deleted
delete_archived_memory(memory_id, user_id) ==
  LET found == DeleteFound(memory_id, user_id)
  IN /\ archived_memories' =
          IF found THEN Drop(archived_memories, memory_id)
          ELSE archived_memories
     /\ last' = [op |-> "delete_archived", id |-> memory_id, ret |-> found]
     /\ run' = Disturb(run)
     /\ prior' = NoPrior
     /\ UNCHANGED <<sessions, memories, history, access_logs, categories, now, ticks,
                    faults, config, jobs>>

\* a whole pass of update_memory_decay_scores in which nothing raises
RunUpdateFor(half_life_days, user_id) ==
  /\ memories' = update_memory_decay_scores(memories, 0, NumMem,
                   half_life_days, user_id).tab
  /\ last' = [op |-> "update", user_id |-> user_id]
  /\ run' = Disturb(run)
  /\ prior' = NoPrior
  /\ UNCHANGED <<sessions, archived_memories, history, access_logs, categories, now,
                 ticks, faults, config, jobs>>

RunUpdate(half_life_days) == RunUpdateFor(half_life_days, NoUser)

\* ---------------------------------------------------- update_memory_state
\* the states a request of the memories router sets
RequestStates == {"active", "paused", "deleted"}

\* routers/memories.py: the state of a memory is set by a request, whatever
\* it was, with archived_at / deleted_at and a history entry; one commit
update_memory_state(memory_id, new_state, user_id) ==
  /\ memory_id \in DOMAIN memories
  /\ Len(history) < MaxHistory
  /\ memories' =
       [memories EXCEPT
          ![memory_id].state = new_state,
          ![memory_id].archived_at =
            IF new_state = "archived" THEN now ELSE @,
          ![memory_id].deleted_at =
            IF new_state = "deleted" THEN now ELSE @,
          ![memory_id].updated_at = now]
  /\ history' = Append(history,
                  MemoryStatusHistory(memory_id, user_id,
                                      memories[memory_id].state, new_state))
  /\ run' = Disturb(run)
  /\ prior' = NoPrior
  /\ last' = [op |-> "update_state", id |-> memory_id,
              new_state |-> new_state]
  /\ UNCHANGED <<archived_memories, access_logs, categories, now, ticks,
                 faults, config, jobs, sessions>>

\* ------------------------------------------- search_memory, step by step
\* memory_obj = db.query(Memory).filter(Memory.id == mysql_id).first(): the
\* session of the call holds the row as it was read
SearchFind(c, id) ==
  /\ sessions[c].pc = "idle"
  /\ id \in DOMAIN memories
  /\ Len(access_logs)
       + Cardinality({d \in Clients : sessions[d].pc = "found"}) < MaxAccesses
  /\ sessions' = [sessions EXCEPT ![c] =
                    [pc |-> "found", id |-> id,
                     access_count |-> memories[id].access_count]]
  /\ last' = [op |-> "search_find", id |-> id]
  /\ UNCHANGED <<memories, archived_memories, history, access_logs,
                 categories, now, ticks, faults, run, prior, config, jobs>>

\* memory_obj.access_count = (memory_obj.access_count or 0) + 1, the access
\* log row, db.commit(): the UPDATE carries the value computed from the row
\* as it was read
SearchCommit(c) ==
  LET id == sessions[c].id
  IN /\ sessions[c].pc = "found"
     /\ memories' =
          [memories EXCEPT ![id].last_accessed_at = now,
                           ![id].access_count = sessions[c].access_count + 1,
                           ![id].updated_at = now]
     /\ access_logs' = Append(access_logs, MemoryAccessLog(id, now))
     /\ sessions' = [sessions EXCEPT ![c] = NoSession]
     /\ run' = Disturb(run)
     /\ prior' = NoPrior
     /\ last' = [op |-> "search_commit", id |-> id]
     /\ UNCHANGED <<archived_memories, history, categories, now, ticks,
                    faults, config, jobs>>

\* ------------------------------------------------------------ specification

Idle == run.pc # "loop"

\* requests and update passes, freely interleaved between two pages
Next ==
  \/ \E step \in TickSteps : Tick(step)
  \/ \E id \in Ids : search_memory(id)
  \/ \E b \in BatchSizes, h \in HalfLives, u \in Filters : UpdateStart(b, h, u)
  \/ \E failed \in SUBSET Ids : UpdatePage(failed)
  \/ UpdateCommitFails
  \/ UpdateReturn

Spec == Init /\ [][Next]_vars

\* archive and restore calls, serialised with fault-free update passes
NextArchive ==
  \/ Idle /\ \E name \in Names : RemoveCategory(name)
  \/ Idle /\ \E id \in Ids : search_memory(id)
  \/ Idle /\ \E h \in HalfLives : UpdateStart(NumMem, h, NoUser)
  \/ UpdatePage({})
  \/ UpdateReturn
  \/ Idle /\ \E t \in Thresholds, b \in BatchSizes, u \in Filters,
                failed \in SUBSET Ids :
               ST_auto_archive_decayed_memories(t, b, u, failed)
  \/ Idle /\ \E t \in Thresholds, b \in BatchSizes, u \in Filters,
                failed \in SUBSET Ids :
               AT_auto_archive_decayed_memories(t, b, u, failed)
  \/ Idle /\ \E id \in Ids, u \in Users : ST_restore_archived_memory(id, u)
  \/ Idle /\ \E id \in Ids, u \in Users : AT_restore_archived_memory(id, u)

SpecArchive == Init /\ [][NextArchive]_vars

\* the decay pipeline: scheduled runs, manual runs and trigger-update
\* requests in their own threads
NextPipeline ==
  \/ ScheduledFire
  \/ trigger_decay_update_now
  \/ \E a \in BOOLEAN, t \in Thresholds : trigger_decay_update(a, t)
  \/ \E j \in Jobs : JobUpdate(j)
  \/ \E j \in Jobs : JobUpdateFails(j)
  \/ \E j \in Jobs : JobArchive(j)
  \/ \E j \in Jobs : JobStats(j)

InitPipeline == InitWith(Configs, {"active", "paused"})

SpecPipeline == InitPipeline /\ [][NextPipeline]_vars

\* the requests of the two routers, one at a time
NextAdmin ==
  \/ \E id \in Ids : search_memory(id)
  \/ RunUpdate(DEFAULT_HALF_LIFE)
  \/ \E id \in Ids, u \in Users, v \in Importances :
       update_memory_importance(id, u, v)
  \/ \E u \in Filters : GetStatistics(u)
  \/ ST_auto_archive_decayed_memories(ADMIN_THRESHOLD, NumMem, "u2", {})
  \/ AT_auto_archive_decayed_memories(ADMIN_THRESHOLD, NumMem, "u1", {})
  \/ \E id \in Ids, u \in Users : AT_restore_archived_memory(id, u)
  \/ \E id \in Ids, u \in Users : delete_archived_memory(id, u)

InitAdmin == InitWith({DefaultConfig}, {"active", "paused", "deleted"})

SpecAdmin == InitAdmin /\ [][NextAdmin]_vars

\* searches of two clients and update passes in their own threads
NextAccess ==
  \/ \E c \in Clients, id \in Ids : SearchFind(c, id)
  \/ \E c \in Clients : SearchCommit(c)
  \/ \E h \in HalfLives : RunUpdate(h)

SpecAccess == Init /\ [][NextAccess]_vars

\* an update pass in its own thread, and requests that set states between
\* two of its pages
NextScan ==
  \/ \E b \in BatchSizes, u \in Filters :
       UpdateStart(b, DEFAULT_HALF_LIFE, u)
  \/ UpdatePage({})
  \/ UpdateReturn
  \/ \E id \in Ids, st \in RequestStates :
       update_memory_state(id, st, OwnerOf(id))

SpecScan == Init /\ [][NextScan]_vars

\* ---------------------------------- scoring over ages and access histories
\* creation times, importances of memory 1 and states of memory 2
ScoreCreated == {0, StartNow - 47, StartNow - 23}
ScoreImportances == {DEFAULT_IMPORTANCE, SCALE}
ScoreStates == {"active", "paused", "deleted", "archived"}

\* the access logs of memory 1: none, one, or two in the order of the clock
ScoreLogs ==
  {<<>>, <<MemoryAccessLog(1, StartNow - 25)>>,
   <<MemoryAccessLog(1, StartNow - 25), MemoryAccessLog(1, StartNow - 23)>>}

\* memory 1 as search_memory left it (cached: count and time written with
\* each log row) or as list_memories left it (log rows only); memory 2 in
\* any lifecycle state, set by update_memory_state
InitScore ==
  /\ \E c \in ScoreCreated, v \in ScoreImportances, logs \in ScoreLogs,
        cached \in BOOLEAN, st \in ScoreStates :
       /\ memories =
            [id \in Ids |->
               IF id = 1
               THEN [Memory(1, c) EXCEPT
                       !.importance_score = v,
                       !.access_count = IF cached THEN Len(logs) ELSE 0,
                       !.last_accessed_at =
                         IF cached /\ logs # <<>>
                         THEN logs[Len(logs)].accessed_at ELSE NONE]
               ELSE IF id = 2
               THEN [Memory(2, CreatedAt(2)) EXCEPT
                       !.state = st,
                       !.archived_at = IF st = "archived"
                                       THEN CreatedAt(2) ELSE NONE,
                       !.deleted_at = IF st = "deleted"
                                      THEN CreatedAt(2) ELSE NONE]
               ELSE Memory(id, CreatedAt(id))]
       /\ access_logs = logs
       /\ history = IF st # "active"
                    THEN <<MemoryStatusHistory(2, OwnerOf(2), "active", st)>>
                    ELSE <<>>
  /\ archived_memories = <<>>
  /\ categories = Names
  /\ now = StartNow
  /\ ticks = 0
  /\ faults = 0
  /\ run = NoRun
  /\ prior = NoPrior
  /\ last = [op |-> "init"]
  /\ config = DefaultConfig
  /\ jobs = [j \in Jobs |-> NoJob]
  /\ sessions = [c \in Clients |-> NoSession]

NextScore ==
  \/ \E step \in TickSteps : Tick(step)
  \/ \E h \in HalfLives, u \in Filters : RunUpdateFor(h, u)
  \/ \E v \in Importances : update_memory_importance(1, OwnerOf(1), v)
  \/ AT_auto_archive_decayed_memories(ADMIN_THRESHOLD, NumMem, "u1", {})
  \/ AT_restore_archived_memory(1, OwnerOf(1))
  \/ ST_restore_archived_memory(2, OwnerOf(2))

SpecScore == InitScore /\ [][NextScore]_vars

\* ================================================================== claims
ArchiveOps == {"st_archive", "at_archive"}
RestoreOps == {"st_restore", "at_restore"}

\* the memory is out of the active set: state archived, or moved to the
\* archive table
ArchivedNext(id) ==
  \/ id \in DOMAIN memories' /\ memories'[id].state = "archived"
  \/ id \notin DOMAIN memories' /\ id \in DOMAIN archived_memories'

StaysActive(id) ==
  /\ id \in DOMAIN memories'
  /\ memories'[id].state = "active"
  /\ memories'[id].archived_at = NONE
  /\ id \notin DOMAIN archived_memories'

\* C1: a call of auto_archive_decayed_memories (either variant) leaves every
\* active memory whose decay_score is >= threshold active, and, when no
\* record fails and at most batch_size active memories of the filter are
\* strictly below the threshold, archives every one of them.
C1_ThresholdBoundary ==
  [][(last'.op \in ArchiveOps) =>
       LET t == last'.threshold
           f == last'.failed
           active == {id \in DOMAIN memories : memories[id].state = "active"}
       IN /\ \A id \in active :
               memories[id].decay_score >= t => StaysActive(id)
          /\ \A b \in BatchSizes, u \in Filters :
               LET below == {id \in active :
                               /\ u = NoUser \/ memories[id].user_id = u
                               /\ memories[id].decay_score < t}
               IN (/\ f = {}
                   /\ Cardinality(below) <= b
                   /\ \/ ST_auto_archive_decayed_memories(t, b, u, f)
                      \/ AT_auto_archive_decayed_memories(t, b, u, f))
                  => \A id \in below : ArchivedNext(id)]_vars

\* C1 witness: a call archived a memory strictly below its threshold and
\* left a memory whose score equals the threshold active.
C1_Witness ==
  /\ last.op \in ArchiveOps
  /\ last.batch # <<>>
  /\ last.failed = {}
  /\ \E id \in DOMAIN memories :
       /\ memories[id].state = "active"
       /\ memories[id].decay_score = last.threshold

C3_RestoreNotFound ==
  [][(last'.op \in RestoreOps) => \A id \in {last'.id}, u \in Users :
       /\ (/\ last'.op = "at_restore"
           /\ AT_restore_archived_memory(id, u)
           /\ ~ (/\ id \in DOMAIN archived_memories
                 /\ archived_memories[id].user_id = u))
            => /\ last'.ret = FALSE
               /\ UNCHANGED <<memories, archived_memories, history>>
       /\ (/\ last'.op = "st_restore"
           /\ ST_restore_archived_memory(id, u)
           /\ ~ (/\ id \in DOMAIN memories
                 /\ memories[id].user_id = u
                 /\ memories[id].state = "archived"))
            => /\ last'.ret = FALSE
               /\ UNCHANGED <<memories, archived_memories, history>>]_vars

\* C3 witness: a restore of an archive record under another owner was
\* declined.
C3_Witness ==
  /\ last.op = "at_restore"
  /\ last.ret = FALSE
  /\ last.id \in DOMAIN archived_memories

\* C4 (as claimed): after a successful restore of the same-table variant the
\* memory is active with decay_score 1.0, access_count 0 and no
\* last_accessed_at.
C4_SameTableRestoreResets ==
  (last.op = "st_restore" /\ last.ret)
    => /\ memories[last.id].state = "active"
       /\ memories[last.id].decay_score = SCALE
       /\ memories[last.id].access_count = 0
       /\ memories[last.id].last_accessed_at = NONE

\* C9 (as claimed): after a call of the archive-table variant, every record
\* of the batch that was processed without failure before a failing record
\* is archived.
C9_EarlierRecordsKept ==
  (last.op = "at_archive")
    => \A i, j \in 1..Len(last.batch) :
         (i < j /\ last.batch[j] \in last.failed
                /\ last.batch[i] \notin last.failed)
           => /\ last.batch[i] \in DOMAIN archived_memories
              /\ last.batch[i] \notin DOMAIN memories

\* C10 (as claimed): a record whose archival fails is left untouched by the
\* call: its row is unchanged (active, no archived_at), it has no archive
\* record and the call adds no history entry for it.
C10_FailedRecordUntouched ==
  [][(last'.op \in ArchiveOps)
       => \A id \in last'.failed :
            /\ id \in DOMAIN memories'
            /\ memories'[id] = memories[id]
            /\ id \notin DOMAIN archived_memories'
            /\ \A k \in (Len(history) + 1)..Len(history') :
                 history'[k].memory_id # id]_vars

DecayFields(m) == <<m.decay_score, m.access_count, m.last_accessed_at>>

RECURSIVE SumVisits(_, _)
SumVisits(v, S) ==
  IF S = {} THEN 0
  ELSE LET x == CHOOSE y \in S : TRUE IN v[x] + SumVisits(v, S \ {x})

\* C5: an update pass that immediately follows a completed pass with the
\* same half-life and owner filter (no request, access or clock advance
\* since that pass began, no failure in either) leaves decay_score,
\* access_count and last_accessed_at of every memory as the first pass left
\* them, and returns the same count.
C5_UpdateIdempotent ==
  [][/\ (last'.op = "update_page" /\ run.follows /\ run'.clean)
          => \A id \in DOMAIN memories :
               /\ id \in DOMAIN memories'
               /\ DecayFields(memories'[id]) = DecayFields(memories[id])
     /\ (last'.op = "update_return" /\ run.follows /\ run.clean)
          => last'.ret = run.prior_total]_vars

\* C5 witness: the second of two immediately successive passes has processed
\* a page with a memory whose score had decayed and a memory with an access.
C5_Witness ==
  /\ run.pc = "loop"
  /\ run.follows
  /\ run.clean
  /\ run.pages >= 1
  /\ \E id \in Ids : run.visits[id] = 1 /\ memories[id].decay_score < SCALE
  /\ \E id \in Ids : run.visits[id] = 1 /\ memories[id].access_count > 0

\* C6: a pass with no failure and no concurrent change over N active
\* memories of the filter returns after ceil(N / batch_size) non-empty
\* pages, has recomputed each of the N memories exactly once and no other,
\* and returns N.
C6_PagedScanComplete ==
  [][(last'.op = "update_return" /\ run.clean)
       => /\ last'.ret = run.n0
          /\ run.pages = (run.n0 + run.batch_size - 1) \div run.batch_size
          /\ \A id \in Ids :
               run.visits[id] =
                 IF /\ id \in DOMAIN memories
                    /\ memories[id].state = "active"
                    /\ (run.user_id = NoUser
                          \/ memories[id].user_id = run.user_id)
                 THEN 1 ELSE 0]_vars

\* C6 witness: three active memories and batch_size 2: a full page and a
\* page of one have been processed, and the scan is about to return 3.
C6_Witness ==
  /\ run.pc = "loop"
  /\ run.clean
  /\ run.n0 = 3
  /\ run.batch_size = 2
  /\ run.pages = 2
  /\ run.total_updated = 3

\* C7: in a page where some records fail, the failed records keep their
\* rows, every other record of the page is recomputed and committed, the
\* scan goes on with the next page, and the count returned is the number of
\* records updated.
C7_RecordFailureIsolated ==
  [][/\ (last'.op = "update_page")
          => /\ run'.pc = "loop"
             /\ run'.offset = run.offset + run.batch_size
             /\ \A id \in last'.failed : memories'[id] = memories[id]
             /\ \A id \in Range(last'.page) \ last'.failed :
                  /\ memories'[id].updated_at = now
                  /\ memories'[id].decay_score =
                       calculate_decay_score(memories[id].created_at,
                         memories'[id].last_accessed_at,
                         memories'[id].access_count,
                         memories[id].importance_score,
                         run.half_life_days, now)
                  /\ run'.visits[id] = run.visits[id] + 1
     /\ (last'.op = "update_return")
          => last'.ret = SumVisits(run.visits, Ids)]_vars

\* C7 witness: a record of the first page failed, and a record of a later
\* page has been updated.
C7_Witness ==
  /\ run.pc = "loop"
  /\ run.pages >= 2
  /\ \E f \in run.failed, id \in Ids :
       /\ f < id
       /\ run.visits[f] = 0
       /\ run.visits[id] = 1
       /\ memories[id].updated_at = now
       /\ memories[f].updated_at # now

\* C8 (as claimed): when the commit of a page fails, the scan continues with
\* the next page at the advanced offset.
C8_CommitFailureContinues ==
  [][(last'.op = "update_raise")
       => /\ run'.pc = "loop"
          /\ run'.offset = run.offset + run.batch_size]_vars

\* C11: an invocation of auto_archive_decayed_memories (either variant)
\* archives at most batch_size memories; with no failure and k active
\* memories of the filter below the threshold it archives min(k, batch_size)
\* of them, returns that number and leaves k - min(k, batch_size) of them
\* (so ceil(k / batch_size) invocations leave none), and with k = 0 it
\* returns 0 and archives nothing.
C11_BatchedArchiveDrains ==
  [][(last'.op \in ArchiveOps /\ last'.failed = {}) =>
       \A b \in BatchSizes, u \in Filters :
         LET t == last'.threshold
             below == {id \in DOMAIN memories :
                         /\ memories[id].state = "active"
                         /\ u = NoUser \/ memories[id].user_id = u
                         /\ memories[id].decay_score < t}
             below_next == {id \in DOMAIN memories' :
                              /\ memories'[id].state = "active"
                              /\ u = NoUser \/ memories'[id].user_id = u
                              /\ memories'[id].decay_score < t}
             k == Cardinality(below)
             gone == {id \in Ids : ~ StaysActive(id) /\ id \in DOMAIN memories
                                   /\ memories[id].state = "active"}
         IN (\/ ST_auto_archive_decayed_memories(t, b, u, {})
             \/ AT_auto_archive_decayed_memories(t, b, u, {}))
            => /\ Cardinality(gone) = Min(k, b)
               /\ gone \subseteq below
               /\ last'.ret = Min(k, b)
               /\ Cardinality(below_next) = k - Min(k, b)
               /\ \A id \in gone : ArchivedNext(id)]_vars

\* the score a memory had when it was archived
ScoreAtArchive(id) ==
  IF id \in DOMAIN memories THEN memories[id].decay_score
  ELSE archived_memories[id].decay_score_at_archive

\* C11 witness: the second of two invocations archived the one memory that
\* the first, limited by its batch size, had left below the threshold (both
\* memories had the same score and owner, and no access in between).
C11_Witness ==
  /\ access_logs = <<>>
  /\ ScoreAtArchive(1) = ScoreAtArchive(2)
  /\ last.op \in ArchiveOps
  /\ last.failed = {}
  /\ last.ret = 1
  /\ Cardinality({id \in Ids : id \notin DOMAIN memories
                                \/ memories[id].state = "archived"}) = 2
  /\ \A id \in DOMAIN memories :
       memories[id].state = "active"
         => memories[id].decay_score >= last.threshold
  /\ Len(history) >= 2
  /\ history[Len(history)].memory_id = 2
  /\ history[Len(history) - 1].memory_id = 1
  /\ history[Len(history) - 1].new_state = "archived"

\* the entries a step appends to the status history
Appended == SubSeq(history', Len(history) + 1, Len(history'))

\* the memories a step takes out of the active set
ArchivedByStep ==
  {id \in DOMAIN memories : memories[id].state = "active" /\ ArchivedNext(id)}

\* C12 (as claimed): every step keeps the existing history entries as they
\* are; a call of auto_archive_decayed_memories appends exactly one entry
\* (active -> archived) for each memory it archives and no other; a
\* successful restore appends exactly one entry (archived -> active) for the
\* restored memory; no other operation appends or changes an entry.
C12_HistoryAppendOnly ==
  [][/\ Len(history') >= Len(history)
     /\ SubSeq(history', 1, Len(history)) = history
     /\ (last'.op \in ArchiveOps)
          => /\ \A id \in ArchivedByStep :
                  Cardinality({k \in 1..Len(Appended) :
                                 Appended[k].memory_id = id}) = 1
             /\ \A k \in 1..Len(Appended) :
                  /\ Appended[k].memory_id \in ArchivedByStep
                  /\ Appended[k].old_state = "active"
                  /\ Appended[k].new_state = "archived"
     /\ (last'.op \in RestoreOps /\ last'.ret)
          => /\ Len(Appended) = 1
             /\ Appended[1].memory_id = last'.id
             /\ Appended[1].old_state = "archived"
             /\ Appended[1].new_state = "active"
     /\ (last'.op \notin ArchiveOps /\ ~ (last'.op \in RestoreOps /\ last'.ret))
          => history' = history]_vars

\* C13: with decay disabled, trigger_decay_update_now returns False, starts
\* no run and changes no memory, archive record or history entry; with decay
\* enabled it never returns False, so False tells the caller that nothing
\* ran.
C13_DisabledTriggerRefuses ==
  [][/\ (~ config.enabled /\ trigger_decay_update_now)
          => /\ last'.op = "trigger"
             /\ last'.ret = FALSE
             /\ UNCHANGED <<sessions, memories, archived_memories, history, jobs>>
     /\ (config.enabled /\ last'.op = "trigger") => last'.ret = TRUE]_vars

\* C13 witness: decay is disabled, there is an active memory that a run
\* would have archived, and the trigger has just answered False.
C13_Witness ==
  /\ ~ config.enabled
  /\ last.op = "trigger"
  /\ last.ret = FALSE
  /\ \E id \in DOMAIN memories : memories[id].state = "active"
  /\ jobs["manual"].at = 0

\* the runs of the pipeline that are in progress
Running == {j \in Jobs : jobs[j].at # 0}

\* C14 (as claimed): at no time are two runs of the decay pipeline in
\* progress: a manual run or a trigger-update request never executes while
\* a scheduled run does, and a scheduled run never starts during one.
C14_NoSimultaneousRuns == Cardinality(Running) <= 1

\* run j completes the step called name
StepDone(j, name) == jobs'[j].done = Append(jobs[j].done, name)

\* C15: in every run the update pass comes first and has committed every
\* active memory's new score before the archive step starts; the archive
\* step archives on scores that the pass wrote; the statistics come last,
\* after the archive step (after the pass when the request asked for no
\* archiving); a run whose pass raises archives nothing.
C15_PipelineOrder ==
  [][\A j \in Jobs :
       /\ StepDone(j, "update")
            => /\ jobs[j].done = <<>>
               /\ \A id \in DOMAIN memories :
                    memories[id].state = "active"
                      => /\ memories'[id].updated_at = now
                         /\ memories'[id].decay_score =
                              update_single_memory_decay(memories[id], id,
                                DECAY_HALF_LIFE_DAYS).decay_score
       /\ StepDone(j, "archive")
            => /\ jobs[j].done = <<"update">>
               /\ \A id \in ArchivedByStep :
                    memories[id].decay_score =
                      update_single_memory_decay(memories[id], id,
                        DECAY_HALF_LIFE_DAYS).decay_score
       /\ StepDone(j, "stats")
            => \/ jobs[j].done = <<"update", "archive">>
               \/ /\ j = "api"
                  /\ ~ jobs[j].auto_archive
                  /\ jobs[j].done = <<"update">>
       /\ (jobs[j].at # 0 /\ jobs'[j].at = 0 /\ jobs'[j].done = jobs[j].done)
            => /\ jobs[j].done = <<>>
               /\ UNCHANGED <<memories, history>>]_vars

\* C15 witness: a scheduled run has gone through update, archive and
\* statistics, and its archive step archived a memory on the new score.
C15_Witness ==
  /\ jobs["scheduled"].done = <<"update", "archive", "stats">>
  /\ jobs["scheduled"].at = 0
  /\ jobs["manual"].done = <<>>
  /\ jobs["api"].done = <<>>
  /\ \E id \in DOMAIN memories :
       /\ memories[id].state = "archived"
       /\ memories[id].decay_score < config.threshold
       /\ memories[id].decay_score < SCALE

\* C16 (as claimed): a scheduled run executes the archive step only if
\* auto-archive is enabled in the configuration; with it disabled the run
\* archives no memory.
C16_ArchiveOnlyIfEnabled ==
  [][/\ StepDone("scheduled", "archive") => config.auto_archive
     /\ (~ config.auto_archive /\ jobs["scheduled"].at # 0)
          => ArchivedByStep \subseteq
               {id \in Ids : \E j \in Jobs \ {"scheduled"} :
                                StepDone(j, "archive")}]_vars

\* the accessed_at stamps of the access log rows of one memory
LogStamps(id) ==
  {access_logs[i].accessed_at :
     i \in {k \in 1..Len(access_logs) : access_logs[k].memory_id = id}}

LogCount(id) ==
  Cardinality({k \in 1..Len(access_logs) : access_logs[k].memory_id = id})

LatestStamp(id) ==
  IF LogStamps(id) = {} THEN NONE
  ELSE CHOOSE t \in LogStamps(id) : \A u \in LogStamps(id) : u <= t

\* C17: update-importance of a memory found under the given owner sets its
\* importance_score to the requested value and, in the same operation, its
\* decay_score to the composite score computed from its access log rows and
\* the new importance; no other memory, archive record or history entry is
\* changed.
C17_ImportanceRecomputes ==
  [][(last'.op = "update_importance") =>
       \A id \in {last'.id}, u \in Users, v \in Importances :
         (/\ update_memory_importance(id, u, v)
          /\ id \in DOMAIN memories
          /\ memories[id].user_id = u)
           => /\ last'.ret
              /\ DOMAIN memories' = DOMAIN memories
              /\ memories'[id].importance_score = v
              /\ memories'[id].decay_score =
                   calculate_decay_score(memories[id].created_at,
                     LatestStamp(id), LogCount(id), v, DEFAULT_HALF_LIFE, now)
              /\ \A o \in DOMAIN memories \ {id} : memories'[o] = memories[o]
              /\ UNCHANGED <<archived_memories, history, access_logs>>]_vars

\* C17 witness: an importance update of a memory with an access log row has
\* committed while another memory still carries its score of before.
C17_Witness ==
  /\ last.op = "update_importance"
  /\ last.ret
  /\ last.id \in DOMAIN memories
  /\ LogCount(last.id) = 1
  /\ memories[last.id].access_count = 1
  /\ memories[last.id].importance_score \in Importances
  /\ memories[last.id].decay_score < SCALE
  /\ \E o \in DOMAIN memories \ {last.id} : memories[o].decay_score = SCALE

\* the memories a statistics call of this owner filter has to count
Counted(user_id) ==
  {id \in DOMAIN memories :
     /\ memories[id].state = "active"
     /\ (user_id = NoUser \/ memories[id].user_id = user_id)}

\* r reports the memories of S in three buckets on the breakpoints 0.3, 0.7
Partitions(r, S) ==
  /\ r.total_memories = Cardinality(S)
  /\ r.high_decay_count =
       Cardinality({id \in S : memories[id].decay_score >= HIGH_BREAK})
  /\ r.medium_decay_count =
       Cardinality({id \in S : /\ memories[id].decay_score >= LOW_BREAK
                               /\ memories[id].decay_score < HIGH_BREAK})
  /\ r.low_decay_count =
       Cardinality({id \in S : memories[id].decay_score < LOW_BREAK})
  /\ r.high_decay_count + r.medium_decay_count + r.low_decay_count
       = r.total_memories

\* C18: get_decay_statistics (either variant) counts exactly the active
\* memories of the owner filter, in the buckets high (score >= 0.7), medium
\* (0.3 <= score < 0.7) and low (score < 0.3), which add up to the reported
\* total; archived, paused and deleted memories and archive records are not
\* counted, and the archive-table variant reports the number of archive
\* records of the filter as well.
C18_StatisticsPartition ==
  (last.op = "statistics") =>
    /\ Partitions(last.ret, Counted(last.user_id))
    /\ Partitions(last.at_ret.active, Counted(last.user_id))
    /\ last.at_ret.total_archived_memories =
         Cardinality({id \in DOMAIN archived_memories :
                        \/ last.user_id = NoUser
                        \/ archived_memories[id].user_id = last.user_id})
    /\ \A id \in Counted(last.user_id) : id \notin DOMAIN archived_memories

\* C18 witness: statistics were taken over a medium and a low memory while a
\* memory of the same filter was paused, deleted or archived.
C18_Witness ==
  /\ last.op = "statistics"
  /\ last.ret.medium_decay_count >= 1
  /\ last.ret.low_decay_count >= 1
  /\ \E id \in DOMAIN memories :
       /\ memories[id].state # "active"
       /\ (last.user_id = NoUser \/ memories[id].user_id = last.user_id)

\* the id has no row in table memories and no archive record
Gone(tab, arch, id) == id \notin DOMAIN tab /\ id \notin DOMAIN arch

C20_AccessCountMonotone ==
  [][\A id \in DOMAIN memories :
       (/\ id \in DOMAIN memories'
        /\ memories[id].state = "active"
        /\ memories'[id].state = "active")
         => memories'[id].access_count >= memories[id].access_count]_vars

\* C21: the decay_score of every memory and the score kept in every archive
\* record lies in [0, 1], whatever the age, access history, importance and
\* half-life, and a memory that a restore has just brought back has
\* decay_score exactly 1.0.
C21_ScoreInUnitInterval ==
  /\ \A id \in DOMAIN memories :
       /\ memories[id].decay_score >= 0
       /\ memories[id].decay_score <= SCALE
  /\ \A id \in DOMAIN archived_memories :
       /\ archived_memories[id].decay_score_at_archive >= 0
       /\ archived_memories[id].decay_score_at_archive <= SCALE
  /\ (last.op \in RestoreOps /\ last.ret)
       => memories[last.id].decay_score = SCALE

\* C21 witness: an update pass has written the score of a memory whose
\* time decay, access boost and importance weight multiply to more than 1.0.
C21_Witness ==
  /\ last.op = "update"
  /\ memories[1].state = "active"
  /\ memories[1].access_count = 2
  /\ memories[1].importance_score = SCALE
  /\ (calculate_access_boost(2) * importance_weight(SCALE)) \div SCALE > SCALE
  /\ now - memories[1].last_accessed_at < HOURS_PER_DAY
  /\ memories[1].decay_score = SCALE

\* C22: after an update pass has processed a memory, its access_count is the
\* number of access log rows of its id and its last_accessed_at the newest
\* of their timestamps (none when there is no row), whatever the two fields
\* held before the pass.
C22_LogIsSourceOfTruth ==
  [][(last'.op = "update") =>
       \A id \in Counted(last'.user_id) :
         /\ id \in DOMAIN memories'
         /\ memories'[id].access_count = LogCount(id)
         /\ memories'[id].last_accessed_at = LatestStamp(id)]_vars

\* C22 witness: a pass has set the count of memory 1 to its two log rows
\* after a restore had reset the cached count to 0 and the time to none.
C22_Witness ==
  /\ last.op = "update"
  /\ 1 \in DOMAIN memories
  /\ \E k \in 1..Len(history) :
       history[k].memory_id = 1 /\ history[k].new_state = "active"
  /\ LogCount(1) = 2
  /\ memories[1].access_count = 2
  /\ memories[1].last_accessed_at = StartNow - 23

\* C23: an update pass changes the lifecycle state of no memory, and leaves
\* every memory that is paused, archived or deleted, and every memory of
\* another owner when a filter is given, as it was: decay_score,
\* access_count, last_accessed_at, updated_at and every other field.
C23_UpdateTouchesActiveOnly ==
  [][(last'.op = "update") =>
       /\ DOMAIN memories' = DOMAIN memories
       /\ \A id \in DOMAIN memories :
            /\ memories'[id].state = memories[id].state
            /\ id \notin Counted(last'.user_id)
                 => memories'[id] = memories[id]
       /\ UNCHANGED <<archived_memories, history>>]_vars

\* C23 witness: sixty days on, a pass filtered by owner u1 has lowered the
\* score of memory 1 while memory 2, not active, and memory 3, of owner u2,
\* still have the score and update time they were created with.
C23_Witness ==
  /\ last.op = "update"
  /\ last.user_id = "u1"
  /\ now > StartNow + HOURS_PER_DAY
  /\ 1 \in DOMAIN memories /\ memories[1].decay_score < SCALE
  /\ memories[1].updated_at = now
  /\ memories[2].state \in {"paused", "archived", "deleted"}
  /\ memories[2].decay_score = SCALE
  /\ memories[2].updated_at = CreatedAt(2)
  /\ memories[3].decay_score = SCALE
  /\ memories[3].updated_at = CreatedAt(3)

\* the time the age of a memory is measured from
ReferenceTime(id) ==
  IF LatestStamp(id) # NONE THEN LatestStamp(id) ELSE memories[id].created_at

\* the number of whole days in a duration of h hours
MaxDays == 120
WholeDays(h) ==
  CHOOSE d \in 0..MaxDays :
    d * HOURS_PER_DAY <= h /\ h < (d + 1) * HOURS_PER_DAY

\* hours by which a reference time is moved inside its day
DayShifts == {0, 1, 12, 23}

\* C24: the score an update pass writes measures the age in whole days,
\* truncated, from the newest access when there is one and from created_at
\* otherwise: with a reference time less than 24 hours back the time-decay
\* factor is 1.0, and every reference time with the same number of whole
\* days gives the same score.
C24_WholeDayTruncation ==
  [][(last'.op = "update") =>
       \A h \in HalfLives, u \in {last'.user_id} :
         RunUpdateFor(h, u) =>
           \A id \in Counted(u) :
             LET age == now - ReferenceTime(id)
                 m == memories[id]
             IN /\ age < HOURS_PER_DAY
                     => memories'[id].decay_score =
                          Clamp01((calculate_access_boost(LogCount(id))
                                     * importance_weight(m.importance_score))
                                    \div SCALE)
                /\ \A k \in DayShifts :
                     memories'[id].decay_score =
                       calculate_decay_score(
                         now - (WholeDays(age) * HOURS_PER_DAY + k), NONE,
                         LogCount(id), m.importance_score, h, now)]_vars

\* C24 witness: a pass has scored memory 1, last accessed 23 hours before,
\* with time-decay factor 1.0: the score is the access boost of its two
\* accesses times the weight of its importance, below 1.0.
C24_Witness ==
  /\ last.op = "update"
  /\ 1 \in DOMAIN memories
  /\ memories[1].state = "active"
  /\ LogCount(1) = 2
  /\ now - LatestStamp(1) = HOURS_PER_DAY - 1
  /\ memories[1].importance_score = DEFAULT_IMPORTANCE
  /\ memories[1].decay_score =
       (calculate_access_boost(2) * importance_weight(DEFAULT_IMPORTANCE))
         \div SCALE
  /\ memories[1].decay_score < SCALE

\* C25: in the archive-table variant no id has a row in table memories and
\* an archive record at the same time; a memory leaves table memories only
\* into the archive table, and an archive record disappears only through a
\* successful restore or permanent delete of its id.
C25_TablesDisjoint ==
  [][/\ DOMAIN memories' \cap DOMAIN archived_memories' = {}
     /\ \A id \in DOMAIN memories \ DOMAIN memories' :
          id \in DOMAIN archived_memories'
     /\ \A id \in DOMAIN archived_memories \ DOMAIN archived_memories' :
          /\ last'.op \in {"at_restore", "delete_archived"}
          /\ last'.id = id
          /\ last'.ret
          /\ last'.op = "at_restore" => id \in DOMAIN memories']_vars

\* C25 witness: after an archive pass moved two memories, one archive record
\* was permanently deleted and the other has just been restored.
C25_Witness ==
  /\ last.op = "at_restore"
  /\ last.ret
  /\ last.id \in DOMAIN memories
  /\ last.id \notin DOMAIN archived_memories
  /\ \E id \in Ids \ {last.id} : Gone(memories, archived_memories, id)

\* the memories an archive call has taken out of the active set
MovedOut ==
  {id \in DOMAIN memories :
     memories[id].state = "active" /\ ArchivedNext(id)}

\* C26 (as claimed): the count auto_archive_decayed_memories returns is the
\* number of memories the call took out of the active set, also when some
\* records of the batch fail.
C26_CountIsArchived ==
  [][(last'.op \in ArchiveOps) => last'.ret = Cardinality(MovedOut)]_vars

\* the memory whose restore is the latest lifecycle change on record, when
\* it was never accessed and its importance was never set
JustRestored ==
  {id \in DOMAIN memories :
     /\ history # <<>>
     /\ history[Len(history)].memory_id = id
     /\ history[Len(history)].old_state = "archived"
     /\ history[Len(history)].new_state = "active"
     /\ memories[id].state = "active"
     /\ LogCount(id) = 0
     /\ memories[id].importance_score = DEFAULT_IMPORTANCE}

\* C27 (as claimed): the archive pass that follows the update pass after a
\* restore, at the same instant, with the half-life and threshold of the
\* run that archived the memory and no access in between, leaves the
\* restored memory active.
C27_RestoreSurvivesNextRun ==
  [][(last.op = "update" /\ last'.op = "at_archive") =>
       \A id \in JustRestored :
         /\ id \in DOMAIN memories'
         /\ memories'[id].state = "active"
         /\ id \notin DOMAIN archived_memories']_vars

\* the memories whose state no request has ever changed
NeverChanged ==
  {id \in DOMAIN memories :
     \A k \in 1..Len(history) : history[k].memory_id # id}

\* C28 (as claimed): when an update pass returns, every memory of the filter
\* that was active during the whole pass has been recomputed exactly once,
\* also when requests changed the state of other memories between two pages.
C28_StableMemoryScannedOnce ==
  [][(last'.op = "update_return") =>
       \A id \in Counted(run.user_id) \cap NeverChanged :
         run.visits[id] = 1]_vars

\* C29 (as claimed): trigger_decay_update_now returns True only when the
\* run it started has completed all its steps; when the update pass or the
\* archive pass raises, it does not return True.
C29_TriggerTrueMeansCompleted ==
  (last.op = "trigger" /\ last.ret)
    => jobs["manual"].done = StepsOf("manual", JobFlag("manual"))

\* C30 (as claimed): for every configured half-life, an update pass that
\* immediately follows a successful update-importance of an active memory,
\* at the same instant and with no new access, leaves the decay_score of
\* that memory as update-importance wrote it.
C30_SingleAgreesWithBatch ==
  [][(/\ last.op = "update_importance"
      /\ last.ret
      /\ last'.op = "update"
      /\ last.id \in Counted(last'.user_id))
       => memories'[last.id].decay_score = memories[last.id].decay_score]_vars

====
